---- MODULE Spec2Model ----
(***************************************************************************)
(* Model of the scaffolding tool of cursor_dev_template (src/index.js):     *)
(* the recursive tree copy copyRecursive(src, dest) and the entry point     *)
(* that calls it once with the bundled template directory and the target    *)
(* directory given on the command line.                                     *)
(*                                                                          *)
(* One filesystem holds both trees.  A path is a sequence of names below    *)
(* the working directory, which is also the directory of index.js, so the   *)
(* template directory is the path <<"t">> and the target may lie anywhere:  *)
(* beside the template, inside it, or above it.                             *)
(***************************************************************************)
EXTENDS Naturals, Sequences, FiniteSets

\* ---------------------------------------------------------------- bounds
Names == {"t", "a"}      \* entry names
Data == {1, 2}           \* file contents
PathMax == 4             \* longest path the filesystem accepts (ENAMETOOLONG beyond)
MaxEntries == 5          \* entries of the initial filesystem
MaxArgLen == 2           \* components of the target directory argument
MaxRuns == 2             \* invocations of the program in a row

\* ---------------------------------------------------------------- filesystem
Paths == UNION {[1..n -> Names] : n \in 0..PathMax}

NoEnt == [kind |-> "none", data |-> 0]
Dir == [kind |-> "dir", data |-> 0]
File(c) == [kind |-> "file", data |-> c]

IsPrefix(p, q) == Len(p) <= Len(q) /\ SubSeq(q, 1, Len(p)) = p

\* the node at a path; a path longer than the filesystem accepts names nothing
Node(f, p) == IF Len(p) <= PathMax THEN f[p] ELSE NoEnt

\* path.join(dir, name)
join(dir, name) == Append(dir, name)

\* fs.existsSync: any failure to stat the path answers false
existsSync(f, p) == Node(f, p).kind # "none"

\* fs.statSync(p).isDirectory()
isDirectory(f, p) == Node(f, p).kind = "dir"

\* fs.mkdirSync(p, {recursive: true}) fails when the path is too long or when p
\* or one of its ancestors is a regular file
mkdirFails(f, p) ==
    \/ Len(p) > PathMax
    \/ \E n \in 0..Len(p) : Node(f, SubSeq(p, 1, n)).kind = "file"

\* a mkdir that creates the last component only
mkdirLeafOnly(f, p) == [q \in Paths |-> IF q = p THEN Dir ELSE f[q]]

\* fs.mkdirSync(p, {recursive: true}) creates p and every missing ancestor
mkdirSync(f, p) ==
    [q \in Paths |-> IF IsPrefix(q, p) /\ f[q].kind = "none" THEN Dir ELSE f[q]]

\* the names fs.readdirSync(p) returns, as a set
entriesOf(f, p) == {x \in Names : existsSync(f, join(p, x))}

\* the orders in which the platform may enumerate a set of names
Orders(S) ==
    {s \in [1..Cardinality(S) -> S] : \A i, j \in 1..Cardinality(S) : s[i] = s[j] => i = j}

\* fs.readdirSync(p): every enumeration order of the entries
readdirSync(f, p) == Orders(entriesOf(f, p))

\* fs.copyFileSync(s, d) fails when d is too long, is a directory, or its
\* parent is not a directory
copyFails(f, s, d) ==
    \/ Len(d) > PathMax
    \/ Node(f, d).kind = "dir"
    \/ Node(f, SubSeq(d, 1, Len(d) - 1)).kind # "dir"

\* fs.copyFileSync(s, d) creates or overwrites d with the bytes of s (copying a
\* file onto itself leaves it as it is)
copyFileSync(f, s, d) == [q \in Paths |-> IF q = d THEN f[s] ELSE f[q]]

\* ---------------------------------------------------------------- initial filesystems
\* every set of entries below directory p, named from `names`, of at most n entries
RECURSIVE Forest(_, _, _)
Forest(p, names, n) ==
    IF names = {} \/ n = 0 \/ Len(p) >= PathMax THEN {{}}
    ELSE LET x == CHOOSE y \in names : TRUE
             q == join(p, x)
             rest(k) == Forest(p, names \ {x}, k)
         IN  rest(n)
             \cup UNION {{{<<q, File(c)>>} \cup r : r \in rest(n - 1)} : c \in Data}
             \cup UNION {{{<<q, Dir>>} \cup s \cup r : r \in rest(n - 1 - Cardinality(s))}
                           : s \in Forest(q, Names, n - 1)}

MkFs(E) ==
    [p \in Paths |-> IF p = <<>> THEN Dir
                     ELSE IF \E e \in E : e[1] = p
                          THEN (CHOOSE e \in E : e[1] = p)[2]
                          ELSE NoEnt]

InitialFilesystems == {MkFs(E) : E \in Forest(<<>>, Names, MaxEntries)}

\* the command lines: no argument, or one target directory
CommandLines == {<<>>} \cup {<<p>> : p \in {q \in Paths : Len(q) >= 1 /\ Len(q) <= MaxArgLen}}

\* ---------------------------------------------------------------- program state
VARIABLES
    fs,        \* the filesystem: path -> node
    argv,      \* the arguments after the script name
    stack,     \* the active calls of copyRecursive, innermost last
    status,    \* "start", "running", "thrown" (uncaught error), "done"
    output,    \* lines written to the console by this invocation
    runs,      \* number of the current invocation
    fs0,       \* history: the filesystem when the current invocation started
    fs1,       \* history: the filesystem when the first invocation ended
    visited    \* history: the source entries the loop has taken, in order

vars == <<fs, argv, stack, status, output, runs, fs0, fs1, visited>>

\* path.join(__dirname, "template")
templateDir == <<"t">>

\* process.argv[2] || "."
targetDir == IF argv = <<>> THEN <<>> ELSE argv[1]

SuccessMessage == "Project created successfully!"

Frame(src, dest) == [src |-> src, dest |-> dest, pc |-> "enter", files |-> <<>>]

Top == stack[Len(stack)]

SetTop(fr) == [stack EXCEPT ![Len(stack)] = fr]

Init ==
    /\ fs \in InitialFilesystems
    /\ argv \in CommandLines
    /\ stack = <<>>
    /\ status = "start"
    /\ output = <<>>
    /\ runs = 1
    /\ fs0 = fs
    /\ fs1 = fs
    /\ visited = <<>>

\* an uncaught exception unwinds every call and ends the process
Throw ==
    /\ status' = "thrown"
    /\ stack' = <<>>

\* lines 22-26: the entry point calls copyRecursive(templateDir, targetDir)
Main ==
    /\ status = "start"
    /\ status' = "running"
    /\ stack' = <<Frame(templateDir, targetDir)>>
    /\ UNCHANGED <<fs, argv, output, runs, fs0, fs1, visited>>

\* lines 7-9: create the destination when it does not exist
Enter ==
    /\ status = "running" /\ stack # <<>> /\ Top.pc = "enter"
    /\ IF existsSync(fs, Top.dest)
       THEN /\ stack' = SetTop([Top EXCEPT !.pc = "readdir"])
            /\ UNCHANGED <<fs, status>>
       ELSE IF mkdirFails(fs, Top.dest)
            THEN Throw /\ UNCHANGED fs
            ELSE /\ fs' = mkdirSync(fs, Top.dest)
                 /\ stack' = SetTop([Top EXCEPT !.pc = "readdir"])
                 /\ UNCHANGED status
    /\ UNCHANGED <<argv, output, runs, fs0, fs1, visited>>

\* line 10: enumerate the source directory, in some order
ReadDir ==
    /\ status = "running" /\ stack # <<>> /\ Top.pc = "readdir"
    /\ IF ~isDirectory(fs, Top.src)
       THEN Throw
       ELSE /\ \E order \in readdirSync(fs, Top.src) :
                  stack' = SetTop([Top EXCEPT !.pc = "loop", !.files = order])
            /\ UNCHANGED status
    /\ UNCHANGED <<fs, argv, output, runs, fs0, fs1, visited>>

\* lines 11-18: one iteration of the loop
Visit ==
    /\ status = "running" /\ stack # <<>> /\ Top.pc = "loop" /\ Top.files # <<>>
    /\ LET file == Head(Top.files)
           srcFile == join(Top.src, file)
           destFile == join(Top.dest, file)
           caller == [Top EXCEPT !.files = Tail(Top.files)]
       IN  /\ visited' = Append(visited, srcFile)
           /\ IF ~existsSync(fs, srcFile)
              THEN Throw /\ UNCHANGED fs
              ELSE IF isDirectory(fs, srcFile)
                   THEN /\ stack' = Append(SetTop(caller), Frame(srcFile, destFile))
                        /\ UNCHANGED <<fs, status>>
                   ELSE IF copyFails(fs, srcFile, destFile)
                        THEN Throw /\ UNCHANGED fs
                        ELSE /\ fs' = copyFileSync(fs, srcFile, destFile)
                             /\ stack' = SetTop(caller)
                             /\ UNCHANGED status
    /\ UNCHANGED <<argv, output, runs, fs0, fs1>>

\* line 20: the loop is over, the call returns
Return ==
    /\ status = "running" /\ stack # <<>> /\ Top.pc = "loop" /\ Top.files = <<>>
    /\ stack' = SubSeq(stack, 1, Len(stack) - 1)
    /\ UNCHANGED <<fs, argv, status, output, runs, fs0, fs1, visited>>

\* a last line that runs after a failed traversal as well
CanLogAfterError == status \in {"running", "thrown"} /\ stack = <<>>

\* the top-level call has returned
CanLog == status = "running" /\ stack = <<>>

\* line 28: the success message, then the process ends
Log ==
    /\ CanLog
    /\ output' = Append(output, SuccessMessage)
    /\ status' = "done"
    /\ fs1' = IF runs = 1 THEN fs ELSE fs1
    /\ UNCHANGED <<fs, argv, stack, runs, fs0, visited>>

\* the program is invoked again with the same command line
Rerun ==
    /\ status = "done" /\ runs < MaxRuns
    /\ runs' = runs + 1
    /\ status' = "start"
    /\ output' = <<>>
    /\ visited' = <<>>
    /\ fs0' = fs
    /\ UNCHANGED <<fs, argv, stack, fs1>>

Next == Main \/ Enter \/ ReadDir \/ Visit \/ Return \/ Log \/ Rerun

Spec == Init /\ [][Next]_vars

TypeOK ==
    /\ status \in {"start", "running", "thrown", "done"}
    /\ runs \in 1..MaxRuns
    /\ fs \in [Paths -> {NoEnt, Dir} \cup {File(c) : c \in Data}]
    /\ \A p \in Paths : p # <<>> /\ fs[p].kind # "none" =>
           fs[SubSeq(p, 1, Len(p) - 1)].kind = "dir"

\* ---------------------------------------------------------------- the copy as a function
\* the names of a directory in the one fixed order a reference run enumerates them
RECURSIVE Sorted(_)
Sorted(S) ==
    IF S = {} THEN <<>>
    ELSE LET x == IF "a" \in S THEN "a" ELSE CHOOSE y \in S : TRUE
         IN  <<x>> \o Sorted(S \ {x})

\* copyRecursive(src, dest) run on filesystem f with every directory enumerated
\* in the fixed order: the filesystem it leaves and whether it returned
RECURSIVE copyRecursive(_, _, _), copyLoop(_, _, _, _)
copyRecursive(f, src, dest) ==
    IF ~existsSync(f, dest) /\ mkdirFails(f, dest)
    THEN [fs |-> f, ok |-> FALSE]
    ELSE LET g == IF existsSync(f, dest) THEN f ELSE mkdirSync(f, dest)
         IN  IF ~isDirectory(g, src)
             THEN [fs |-> g, ok |-> FALSE]
             ELSE copyLoop(g, src, dest, Sorted(entriesOf(g, src)))

copyLoop(f, src, dest, files) ==
    IF files = <<>> THEN [fs |-> f, ok |-> TRUE]
    ELSE LET srcFile == join(src, Head(files))
             destFile == join(dest, Head(files))
             r == IF isDirectory(f, srcFile)
                  THEN copyRecursive(f, srcFile, destFile)
                  ELSE IF copyFails(f, srcFile, destFile)
                       THEN [fs |-> f, ok |-> FALSE]
                       ELSE [fs |-> copyFileSync(f, srcFile, destFile), ok |-> TRUE]
         IN  IF r.ok THEN copyLoop(r.fs, src, dest, Tail(files)) ELSE r

\* ---------------------------------------------------------------- vocabulary of the claims
Range(s) == {s[i] : i \in 1..Len(s)}

\* the source and the destination path of relative path r
SrcAt(r) == templateDir \o r
DestAt(r) == targetDir \o r

\* a destination that does not exist, or exists as an empty directory
Fresh(f, d) ==
    \/ ~existsSync(f, d)
    \/ isDirectory(f, d) /\ entriesOf(f, d) = {}

\* the entries below the template directory in filesystem f
SourceEntries(f) ==
    {p \in Paths : IsPrefix(templateDir, p) /\ p # templateDir /\ existsSync(f, p)}

\* the destination lies in the source tree, or the source tree in the destination
Overlap == IsPrefix(templateDir, targetDir) \/ IsPrefix(targetDir, templateDir)

\* ---------------------------------------------------------------- C1
\* C1 (structural fidelity): when copyRecursive has returned for a template
\* directory T and a fresh destination D (missing, possibly with missing
\* ancestors, or an empty directory), D and all its ancestors are directories
\* and at every relative path D holds exactly what T held: the same kind of
\* entry (none, directory, file) and, for a file, the same content.
C1_StructuralFidelity ==
    (status = "done" /\ isDirectory(fs0, templateDir) /\ Fresh(fs0, targetDir)) =>
        /\ \A n \in 0..Len(targetDir) : isDirectory(fs, SubSeq(targetDir, 1, n))
        /\ \A r \in Paths : r # <<>> => Node(fs, DestAt(r)) = Node(fs0, SrcAt(r))

\* a two-level destination whose ancestor was missing too received a nested file
C1_Witness ==
    /\ status = "done"
    /\ Len(targetDir) = 2
    /\ ~existsSync(fs0, SubSeq(targetDir, 1, 1))
    /\ \E x, y \in Names :
           /\ Node(fs0, SrcAt(<<x, y>>)).kind = "file"
           /\ Node(fs, DestAt(<<x, y>>)) = Node(fs0, SrcAt(<<x, y>>))
    /\ \E x \in Names : isDirectory(fs0, SrcAt(<<x>>)) /\ entriesOf(fs0, SrcAt(<<x>>)) = {}

\* ---------------------------------------------------------------- C2
\* C2 (overwrite semantics): when copyRecursive has completed, every destination
\* file that existed before the run, with a different content, at a relative
\* path where the source held a regular file has exactly the content of that
\* source file.
C2_Overwrite ==
    status = "done" =>
        \A r \in Paths :
            (/\ Node(fs0, SrcAt(r)).kind = "file"
             /\ Node(fs0, DestAt(r)).kind = "file"
             /\ Node(fs0, DestAt(r)) # Node(fs0, SrcAt(r)))
                => Node(fs, DestAt(r)) = Node(fs0, SrcAt(r))

\* ---------------------------------------------------------------- C3
\* C3 (idempotence): a second run after a successful first run raises no
\* error and ends with the filesystem the first run left.
C3_Idempotent ==
    runs >= 2 => /\ status # "thrown"
                 /\ status = "done" => fs = fs1

\* ---------------------------------------------------------------- C4
\* C4 (path collision is fatal): when a path at which a directory is needed
\* (the destination root, or destination/r for a directory r of the source) is
\* occupied by a regular file, the operation never reports success.
C4_CollisionFatal ==
    \A r \in Paths :
        ((r = <<>> \/ Node(fs0, SrcAt(r)).kind = "dir")
            /\ Node(fs0, DestAt(r)).kind = "file" /\ Node(fs, DestAt(r)).kind = "file")
        => (status # "done" /\ output = <<>>)

\* ---------------------------------------------------------------- C5
\* C5 (fatal abort on missing source): when the template directory does not
\* exist (or is not a directory) at invocation, nothing is created or modified,
\* no entry is visited and the success message is never printed.
C5_MissingSourceAborts ==
    ~isDirectory(fs0, templateDir) =>
        /\ fs = fs0
        /\ visited = <<>>
        /\ output = <<>>
        /\ status # "done"

C7_SourceReadOnly ==
    \A p \in Paths : (IsPrefix(templateDir, p) /\ p # templateDir) => fs[p] = fs0[p]

\* ---------------------------------------------------------------- C8
\* C8 (order-insensitivity): whatever the enumeration orders, the invocation
\* ends as the run with the fixed order ends: success or error alike and, on
\* success, the same filesystem.
C8_OrderInsensitive ==
    /\ status = "done" =>
           LET ref == copyRecursive(fs0, templateDir, targetDir)
           IN  ref.ok /\ fs = ref.fs
    /\ status = "thrown" => ~copyRecursive(fs0, templateDir, targetDir).ok

\* ---------------------------------------------------------------- C9
\* C9 (termination, single pass): the loop takes no entry twice, takes only
\* entries the source tree had when the invocation started and, when the
\* top-level call has returned, has taken every one of them.
C9_SinglePass ==
    /\ \A i, j \in 1..Len(visited) : visited[i] = visited[j] => i = j
    /\ \A i \in 1..Len(visited) : existsSync(fs0, visited[i])
    /\ status = "done" => SourceEntries(fs0) \subseteq Range(visited)

\* ---------------------------------------------------------------- C10
\* C10 (destination frame): every entry the destination held before the run
\* at a relative path that is not a regular file of the source tree is at all
\* times what it was.
C10_DestinationFrame ==
    \A r \in Paths :
        (existsSync(fs0, DestAt(r)) /\ Node(fs0, SrcAt(r)).kind # "file")
            => Node(fs, DestAt(r)) = Node(fs0, DestAt(r))
====
